---- MODULE Spec2Model ----
(***************************************************************************)
(* A model of src/main.py: the /run endpoint of a code-execution sandbox.  *)
(*                                                                         *)
(* One asyncio event loop serves every request.  run_code runs on the loop *)
(* thread: it extracts the imports of the submitted code, installs the     *)
(* missing modules with a blocking subprocess.run(pip ...), wraps the code *)
(* and hands sync_run to the default thread pool, awaiting its result.     *)
(* sync_run writes the wrapped code to a temporary file, starts python3 on *)
(* it (with set_limits as preexec_fn on Linux), waits for it with a        *)
(* timeout and unlinks the file in a finally clause.                       *)
(*                                                                         *)
(* Specification Spec is the request pipeline; specification SpecWrap is   *)
(* the wrapper's argument literal (json.dumps, then the child's Python     *)
(* evaluation of that text).                                               *)
(***************************************************************************)
EXTENDS Integers, Sequences, FiniteSets, TLC

\* ---------------------------------------------------------------- bounds
NumRequests == 2
PoolSize == 2
MaxArgs == 2
MaxElems == 1

\* ------------------------------------------------------ program constants
DefaultCpuSeconds == 2
DefaultMemoryMB == 64

VARIABLES
  platform,      \* platform.system() of the host
  CPU_LIMIT,     \* module global, seconds (0: disabled)
  MEMORY_LIMIT,  \* module global, bytes (0: disabled)
  available,     \* modules importlib.util.find_spec resolves (shared by all requests)
  loop,          \* the request running on the event-loop thread, 0 when it is idle
  pc,            \* where each request is
  unresolved,    \* the modules of the request that did not resolve when it was admitted
  provision,     \* how ensure_modules_installed went for the request
  pipCalls,      \* the package-manager invocations of the request: the module set of each
  tmpfiles,      \* requests whose temporary artifact exists on disk
  child,         \* the python3 child of the request
  returncode,    \* the child's exit status
  desc,          \* whether a process the child started itself is alive
  limits,        \* the ceilings in force in the child
  result,        \* what sync_run produced
  response,      \* the HTTP response of the request
  wpc, wnames, wargs, wtext, wvalue   \* the wrapper: see SpecWrap

pipeVars == <<platform, CPU_LIMIT, MEMORY_LIMIT, available, loop, pc,
              unresolved, provision, pipCalls, tmpfiles, child, returncode, desc,
              limits, result, response>>
wrapVars == <<wpc, wnames, wargs, wtext, wvalue>>
hostVars == <<platform, CPU_LIMIT, MEMORY_LIMIT>>
vars == <<pipeVars, wrapVars>>

Requests == 1..NumRequests

\* platform.system() on the hosts where `import resource` (line 10) succeeds.
Systems == {"Linux", "Darwin"}

\* Module names a submission may import.  "json" ships with the interpreter,
\* "numpy" is a third-party package, and "__main__" is in sys.modules with
\* __spec__ = None when the server was started from a script (e.g. the uvicorn
\* console script): importlib.util.find_spec raises ValueError for it.
Modules == {"json", "numpy", "__main__"}
NoSpecModules == {"__main__"}
StdlibModules == {"json"}

\* A submission, as far as extract_imports sees it: whether ast.parse accepts it
\* and the root names of its import statements.
Codes == [parses : BOOLEAN, imports : SUBSET Modules]

NoResponse == [status |-> 0, detail |-> "none"]
NoLimits == [cpu |-> FALSE, mem |-> FALSE]

\* ------------------------------------------------------------ set_limits
\* set_limits(): which ceilings it puts in force in the process that calls it.
\* RLIMIT_CPU is set when CPU_LIMIT > 0; RLIMIT_AS is set when MEMORY_LIMIT > 0
\* and the system is Linux, and skipped with a warning on Darwin.
\* (resource.setrlimit raises ValueError only when the server's own hard limit
\* is below the configured value; the child then inherits that tighter ceiling.
\* The configured values are taken to be within the server's hard limits.)
set_limits(system, cpuLimit, memLimit) ==
  [cpu |-> cpuLimit > 0, mem |-> memLimit > 0 /\ system = "Linux"]

\* sync_run passes preexec_fn = set_limits only when platform.system() is
\* "Linux" (lines 152-153); elsewhere the child starts with no ceiling set.
preexec(system, cpuLimit, memLimit) ==
  IF system = "Linux"
    THEN set_limits(system, cpuLimit, memLimit)
    ELSE NoLimits

\* ------------------------------------------------------- extract_imports
extract_imports(code) == IF code.parses THEN code.imports ELSE {}

\* ---------------------------------------------- ensure_modules_installed
\* importlib.util.find_spec(name): "spec", "None", or "ValueError".
find_spec(name, avail) ==
  IF name \in NoSpecModules THEN "ValueError"
  ELSE IF name \in avail THEN "spec"
  ELSE "None"

find_spec_raises(modules, avail) ==
  \E m \in modules : find_spec(m, avail) = "ValueError"

missing_modules(modules, avail) ==
  {m \in modules : find_spec(m, avail) = "None"}

\* ------------------------------------------------------------- run_code
\* The except clause of run_code (lines 200-202): every exception raised in the
\* try block, the HTTPException(400) of line 196 included, becomes a 500.
except_Exception(detail) == [status |-> 500, detail |-> detail]

\* Lines 194-198: the response for what sync_run gave back.
response_for(res) ==
  IF res = "success" THEN [status |-> 200, detail |-> "result"]
  ELSE IF res = "raised" THEN except_Exception("exception in sync_run")
  ELSE except_Exception(res)

\* A faulty variant of the hand-over: sync_run(wrapped_code) called in the
\* coroutine itself, which keeps the event loop until the child is done.
AwaitExecutorInline(r) ==
  /\ pc' = [pc EXCEPT ![r] = "queued"]
  /\ loop' = r

\* await run_in_executor(None, sync_run, wrapped_code): the work item is queued
\* for the default thread pool and the coroutine yields the event loop.
AwaitExecutor(r) ==
  /\ pc' = [pc EXCEPT ![r] = "queued"]
  /\ loop' = 0

\* The request ends with an exception caught at line 200.
Fail500(r, detail) ==
  /\ pc' = [pc EXCEPT ![r] = "done"]
  /\ loop' = 0
  /\ response' = [response EXCEPT ![r] = except_Exception(detail)]

\* A variant of the installer call that does not hold the event loop (as an
\* awaited asyncio subprocess, or ensure_modules_installed run in the executor).
RunPipOffLoop(r) ==
  /\ pc' = [pc EXCEPT ![r] = "installing"]
  /\ loop' = 0

\* subprocess.run(["pip", ...]) is called on the event-loop thread and blocks it
\* until pip ends.
RunPip(r) ==
  /\ pc' = [pc EXCEPT ![r] = "installing"]
  /\ loop' = r

\* A faulty variant of the installer's failure: the error is logged (line 131)
\* but not raised, and run_code goes on to execute the code.
PipFailedIgnored(r) ==
  /\ AwaitExecutor(r)
  /\ UNCHANGED response

\* pip exited non-zero: CalledProcessError becomes RuntimeError (line 132), which
\* leaves run_code's try block.
PipFailed(r) == Fail500(r, "Failed to install modules")

\* run_code from its start to its first blocking call: extract_imports, the
\* find_spec loop, and then either the pip invocation or the hand-over to the pool.
Receive(r) ==
  /\ pc[r] = "new"
  /\ loop = 0
  /\ \E code \in Codes :
       LET modules == extract_imports(code)
           missing == missing_modules(modules, available)
       IN /\ unresolved' = [unresolved EXCEPT ![r] = modules \ (available \cup NoSpecModules)]
          /\ IF find_spec_raises(modules, available)
               THEN /\ Fail500(r, "ValueError")
                    /\ provision' = [provision EXCEPT ![r] = "raised"]
                    /\ UNCHANGED pipCalls
             ELSE IF missing = {}
               THEN /\ AwaitExecutor(r)
                    /\ provision' = [provision EXCEPT ![r] = "nothing missing"]
                    /\ UNCHANGED <<pipCalls, response>>
             ELSE /\ pipCalls' = [pipCalls EXCEPT ![r] = Append(@, missing)]
                  /\ \E spawned \in BOOLEAN :
                       IF spawned
                         THEN /\ RunPip(r)
                              /\ provision' = [provision EXCEPT ![r] = "running"]
                              /\ UNCHANGED response
                         ELSE /\ Fail500(r, "No such file or directory: pip")
                              /\ provision' = [provision EXCEPT ![r] = "spawn failed"]
  /\ UNCHANGED <<hostVars, available, tmpfiles, child,
                 returncode, desc, limits, result>>
  /\ UNCHANGED wrapVars

\* pip ends; run_code goes on to the wrapper and the hand-over, or fails.
InstallFinish(r) ==
  /\ pc[r] = "installing"
  /\ \E ok \in BOOLEAN :
       IF ok
         THEN /\ available' = available \cup pipCalls[r][Len(pipCalls[r])]
              /\ provision' = [provision EXCEPT ![r] = "installed"]
              /\ AwaitExecutor(r)
              /\ UNCHANGED response
         ELSE /\ provision' = [provision EXCEPT ![r] = "failed"]
              /\ PipFailed(r)
              /\ UNCHANGED available
  /\ UNCHANGED <<hostVars, unresolved, pipCalls,
                 tmpfiles, child, returncode, desc, limits, result>>
  /\ UNCHANGED wrapVars

\* ------------------------------------------------------------- sync_run
\* Worker threads of the default executor that are inside sync_run.
BusyWorkers == {r \in Requests : pc[r] = "waiting"}

\* sync_run returns (or raises) and its future completes.  The finally clause of
\* line 171 covers only what follows line 145.
SyncRunReturns(r, res, unlinked) ==
  /\ result' = [result EXCEPT ![r] = res]
  /\ tmpfiles' = IF unlinked THEN tmpfiles \ {r} ELSE tmpfiles \cup {r}
  /\ pc' = [pc EXCEPT ![r] = "completed"]

\* A pool thread takes the work item: lines 139-155 up to the wait for the child.
\*   - the temporary file is created, then written (lines 139-142, outside the try);
\*   - Popen starts python3, running set_limits in the child before exec on Linux;
\*     it raises OSError when there is no python3 to start, which line 168 catches.
WorkerStart(r) ==
  /\ pc[r] = "queued"
  /\ Cardinality(BusyWorkers) < PoolSize
  /\ \E written \in BOOLEAN, started \in BOOLEAN :
       LET lim == preexec(platform, CPU_LIMIT, MEMORY_LIMIT) IN
       IF ~written
         THEN /\ SyncRunReturns(r, "raised", FALSE)
              /\ UNCHANGED <<child, limits>>
       ELSE IF ~started
         THEN /\ SyncRunReturns(r, "Unknown error", TRUE)
              /\ UNCHANGED <<child, limits>>
       ELSE /\ child' = [child EXCEPT ![r] = "running"]
            /\ limits' = [limits EXCEPT ![r] = lim]
            /\ tmpfiles' = tmpfiles \cup {r}
            /\ pc' = [pc EXCEPT ![r] = "waiting"]
            /\ UNCHANGED result
  /\ UNCHANGED <<hostVars, available, loop, unresolved,
                 provision, pipCalls, returncode, desc, response>>
  /\ UNCHANGED wrapVars

\* The submitted code starts a process of its own, which inherits the child's
\* stdout and stderr pipes (what fork and subprocess do by default).
ChildFork(r) ==
  /\ child[r] = "running"
  /\ ~desc[r]
  /\ desc' = [desc EXCEPT ![r] = TRUE]
  /\ UNCHANGED <<hostVars, available, loop, pc,
                 unresolved, provision, pipCalls, tmpfiles, child, returncode,
                 limits, result, response>>
  /\ UNCHANGED wrapVars

\* The child ends by itself: with exit status 0, or with another one (an uncaught
\* exception, or the kernel's signal for a ceiling: a negative returncode).
ChildExit(r) ==
  /\ child[r] = "running"
  /\ \E rc \in {"zero", "nonzero"} :
       returncode' = [returncode EXCEPT ![r] = rc]
  /\ child' = [child EXCEPT ![r] = "exited"]
  /\ UNCHANGED <<hostVars, available, loop, pc, unresolved,
                 provision, pipCalls, tmpfiles, desc, limits, result,
                 response>>
  /\ UNCHANGED wrapVars

\* A process the child started ends by itself.
DescendantExit(r) ==
  /\ desc[r]
  /\ desc' = [desc EXCEPT ![r] = FALSE]
  /\ UNCHANGED <<hostVars, available, loop, pc, unresolved,
                 provision, pipCalls, tmpfiles, child, returncode,
                 limits, result, response>>
  /\ UNCHANGED wrapVars

\* communicate() is over: the child has exited and both pipes are at end of file.
OutputCollected(r) == child[r] = "exited" /\ ~desc[r]

\* subprocess.run returns a CompletedProcess (lines 155-161); decoding the
\* captured bytes as UTF-8 raises UnicodeDecodeError when they are not UTF-8,
\* which the except clause of line 168 turns into an error result.
WaitReturn(r) ==
  /\ pc[r] = "waiting"
  /\ OutputCollected(r)
  /\ \E decodes \in BOOLEAN :
       SyncRunReturns(r, IF decodes THEN "success" ELSE "Unknown error", TRUE)
  /\ UNCHANGED <<hostVars, available, loop, unresolved,
                 provision, pipCalls, child, returncode, desc, limits,
                 response>>
  /\ UNCHANGED wrapVars

\* The timeout of subprocess.run expires while communicate() is still waiting:
\* run() kills the child (Popen.kill: SIGKILL to that one pid), waits for it and
\* re-raises TimeoutExpired (lines 162-164).
kill_on_timeout(c) == IF c = "running" THEN "killed" ELSE c

WaitTimeout(r) ==
  /\ pc[r] = "waiting"
  /\ ~OutputCollected(r)
  /\ child' = [child EXCEPT ![r] = kill_on_timeout(@)]
  /\ SyncRunReturns(r, "Execution timed out", TRUE)
  /\ UNCHANGED <<hostVars, available, loop, unresolved,
                 provision, pipCalls, returncode, desc, limits,
                 response>>
  /\ UNCHANGED wrapVars

\* The future is done and the event loop resumes run_code after the await
\* (lines 192-202).
Resume(r) ==
  /\ pc[r] = "completed"
  /\ loop = 0
  /\ response' = [response EXCEPT ![r] = response_for(result[r])]
  /\ pc' = [pc EXCEPT ![r] = "done"]
  /\ UNCHANGED <<hostVars, available, loop, unresolved,
                 provision, pipCalls, tmpfiles, child, returncode,
                 desc, limits, result>>
  /\ UNCHANGED wrapVars


\* --------------------------------------------------------------- wrapper
\* Python values, as json.loads hands them to run_code in payload.args and as
\* the child's interpreter builds them.  t: the type; n: an int's value, or 1/0
\* for True/False; s: a str's code points; k, e: a dict's keys and values, or
\* e: a list's elements.
PyVal(t, n, s, k, e) == [t |-> t, n |-> n, s |-> s, k |-> k, e |-> e]
PyInt(n) == PyVal("int", n, <<>>, <<>>, <<>>)
PyStr(s) == PyVal("str", 0, s, <<>>, <<>>)
PyBool(b) == PyVal("bool", IF b THEN 1 ELSE 0, <<>>, <<>>, <<>>)
PyNone == PyVal("NoneType", 0, <<>>, <<>>, <<>>)
PyList(e) == PyVal("list", 0, <<>>, <<>>, e)
PyDict(k, e) == PyVal("dict", 0, <<>>, k, e)
NameError == PyVal("NameError", 0, <<>>, <<>>, <<>>)
Unset == PyVal("unset", 0, <<>>, <<>>, <<>>)

\* Code points: "a", U+00E9 and U+1F600 (outside the Basic Multilingual Plane).
Chars == {97, 233, 128512}
Strings == {<<>>} \cup {<<c>> : c \in Chars}
Keys == {<<97>>}

SeqsUpTo(S, n) == UNION {[1..m -> S] : m \in 0..n}

Atoms == {PyInt(0), PyInt(7), PyBool(TRUE), PyBool(FALSE), PyNone}
           \cup {PyStr(x) : x \in Strings}
JSONValues ==
  Atoms \cup {PyList(e) : e \in SeqsUpTo(Atoms, MaxElems)}
        \cup {PyDict(k, e) : k \in SeqsUpTo(Keys, MaxElems), e \in SeqsUpTo(Atoms, MaxElems)}
ArgLists == {a \in SeqsUpTo(JSONValues, MaxArgs) :
               \A i \in 1..Len(a) : Len(a[i].k) = Len(a[i].e) \/ a[i].t # "dict"}

\* Tokens of Python source text.  k: "[", "]", "{", "}", ",", ":", "int", "str"
\* or "name"; n: an int literal's value; id: a name; s: what stands between the
\* quotes of a string literal, each unit a character written as itself
\* (<<"chr", cp>>) or a \uXXXX escape (<<"u", XXXX>>).
Tok(k, n, id, s) == [k |-> k, n |-> n, id |-> id, s |-> s]
Punct(k) == Tok(k, 0, "", <<>>)

\* json.encoder.py_encode_basestring_ascii (ensure_ascii is json.dumps' default):
\* ASCII as it is, other BMP characters as one \uXXXX escape, and characters above
\* U+FFFF as the two escapes of their UTF-16 surrogate pair.
escape_char(cp) ==
  IF cp < 128 THEN << <<"chr", cp>> >>
  ELSE IF cp < 65536 THEN << <<"u", cp>> >>
  ELSE << <<"u", 55296 + ((cp - 65536) \div 1024)>>,
          <<"u", 56320 + ((cp - 65536) % 1024)>> >>

RECURSIVE escape_string(_)
escape_string(str) ==
  IF str = <<>> THEN <<>>
  ELSE escape_char(Head(str)) \o escape_string(Tail(str))

\* json.dumps(value): the text, as tokens.
RECURSIVE json_dumps(_)
RECURSIVE dumps_items(_, _)
RECURSIVE dumps_members(_, _, _)
json_dumps(v) ==
  CASE v.t = "int" -> <<Tok("int", v.n, "", <<>>)>>
    [] v.t = "str" -> <<Tok("str", 0, "", escape_string(v.s))>>
    [] v.t = "bool" -> <<Tok("name", 0, IF v.n = 1 THEN "true" ELSE "false", <<>>)>>
    [] v.t = "NoneType" -> <<Tok("name", 0, "null", <<>>)>>
    [] v.t = "list" -> <<Punct("[")>> \o dumps_items(v.e, 1) \o <<Punct("]")>>
    [] v.t = "dict" -> <<Punct("{")>> \o dumps_members(v.k, v.e, 1) \o <<Punct("}")>>

dumps_items(e, i) ==
  IF i > Len(e) THEN <<>>
  ELSE (IF i > 1 THEN <<Punct(",")>> ELSE <<>>)
         \o json_dumps(e[i]) \o dumps_items(e, i + 1)

dumps_members(k, e, i) ==
  IF i > Len(e) THEN <<>>
  ELSE (IF i > 1 THEN <<Punct(",")>> ELSE <<>>)
         \o <<Tok("str", 0, "", escape_string(k[i])), Punct(":")>>
         \o json_dumps(e[i]) \o dumps_members(k, e, i + 1)

\* The child's interpreter on a string literal: every unit is one code point of
\* the str, a \uXXXX escape included (Python does not join surrogate escapes).
RECURSIVE py_string(_)
py_string(units) ==
  IF units = <<>> THEN <<>>
  ELSE <<Head(units)[2]>> \o py_string(Tail(units))

\* A name in the child: the builtins are True, False and None; any other name
\* must have been bound by the submitted code, which runs first in the same
\* module (names: the JSON names it binds to the matching constants).
py_name(id, names) ==
  IF id \notin names THEN NameError
  ELSE IF id = "true" THEN PyBool(TRUE)
  ELSE IF id = "false" THEN PyBool(FALSE)
  ELSE PyNone

\* The child's evaluation of the expression that starts at token i: its value
\* and the index after it.  An element that raises makes the whole display raise.
RECURSIVE py_eval(_, _, _)
RECURSIVE py_items(_, _, _, _)
RECURSIVE py_members(_, _, _, _, _)
py_eval(toks, i, names) ==
  LET tok == toks[i] IN
  CASE tok.k = "int" -> [v |-> PyInt(tok.n), j |-> i + 1]
    [] tok.k = "str" -> [v |-> PyStr(py_string(tok.s)), j |-> i + 1]
    [] tok.k = "name" -> [v |-> py_name(tok.id, names), j |-> i + 1]
    [] tok.k = "[" -> py_items(toks, i + 1, names, <<>>)
    [] tok.k = "{" -> py_members(toks, i + 1, names, <<>>, <<>>)

py_items(toks, i, names, acc) ==
  IF toks[i].k = "]"
    THEN [v |-> IF \E x \in 1..Len(acc) : acc[x] = NameError
                  THEN NameError ELSE PyList(acc),
          j |-> i + 1]
  ELSE IF toks[i].k = "," THEN py_items(toks, i + 1, names, acc)
  ELSE LET item == py_eval(toks, i, names)
       IN py_items(toks, item.j, names, Append(acc, item.v))

py_members(toks, i, names, keys, vals) ==
  IF toks[i].k = "}"
    THEN [v |-> IF \E x \in 1..Len(vals) : vals[x] = NameError
                  THEN NameError ELSE PyDict(keys, vals),
          j |-> i + 1]
  ELSE IF toks[i].k = "," THEN py_members(toks, i + 1, names, keys, vals)
  ELSE LET key == py_eval(toks, i, names)
           val == py_eval(toks, key.j + 1, names)
       IN py_members(toks, val.j, names, Append(keys, key.v.s), Append(vals, val.v))

\* run_code, lines 183-188: the footer's line `args = {json.dumps(payload.args)}`.
Wrap ==
  /\ wpc = "request"
  /\ wtext' = json_dumps(PyList(wargs))
  /\ wpc' = "wrapped"
  /\ UNCHANGED <<wnames, wargs, wvalue>>
  /\ UNCHANGED pipeVars

\* The child executes the footer's first line, after the submitted code.
ChildEval ==
  /\ wpc = "wrapped"
  /\ wvalue' = py_eval(wtext, 1, wnames).v
  /\ wpc' = "evaluated"
  /\ UNCHANGED <<wnames, wargs, wtext>>
  /\ UNCHANGED pipeVars

\* ------------------------------------------------------------------ Spec
WrapIdle ==
  /\ wpc = "off"
  /\ wnames = {}
  /\ wargs = <<>>
  /\ wtext = <<>>
  /\ wvalue = Unset

PipeInit ==
  /\ available = StdlibModules
  /\ loop = 0
  /\ pc = [r \in Requests |-> "new"]
  /\ unresolved = [r \in Requests |-> {}]
  /\ provision = [r \in Requests |-> "none"]
  /\ pipCalls = [r \in Requests |-> <<>>]
  /\ tmpfiles = {}
  /\ child = [r \in Requests |-> "none"]
  /\ returncode = [r \in Requests |-> "none"]
  /\ desc = [r \in Requests |-> FALSE]
  /\ limits = [r \in Requests |-> [cpu |-> FALSE, mem |-> FALSE]]
  /\ result = [r \in Requests |-> "none"]
  /\ response = [r \in Requests |-> NoResponse]

\* The hosts and configurations: lines 32-33 read the limits from the environment.
HostInit ==
  /\ platform \in Systems
  /\ CPU_LIMIT \in {0, DefaultCpuSeconds}
  /\ MEMORY_LIMIT \in {0, DefaultMemoryMB * 1024 * 1024}

Init ==
  /\ HostInit
  /\ PipeInit
  /\ WrapIdle

Next ==
  \E r \in Requests :
    \/ Receive(r)
    \/ InstallFinish(r)
    \/ WorkerStart(r)
    \/ ChildFork(r)
    \/ ChildExit(r)
    \/ DescendantExit(r)
    \/ WaitReturn(r)
    \/ WaitTimeout(r)
    \/ Resume(r)

Spec == Init /\ [][Next]_vars

\* The wrapper alone, for every argument list within the bounds and for
\* submitted code that does or does not bind the names true, false and null.
WrapInit ==
  /\ platform = "Linux"
  /\ CPU_LIMIT = DefaultCpuSeconds
  /\ MEMORY_LIMIT = DefaultMemoryMB * 1024 * 1024
  /\ PipeInit
  /\ wpc = "request"
  /\ wnames \in {{}, {"true", "false", "null"}}
  /\ wargs \in ArgLists
  /\ wtext = <<>>
  /\ wvalue = Unset

WrapNext == Wrap \/ ChildEval

SpecWrap == WrapInit /\ [][WrapNext]_vars

\* ================================================================ claims
\* sync_run has returned for request r (or has raised).
Returned(r) == pc[r] \in {"completed", "done"}

\* The request failed in one of the expected ways: the installer failed or could
\* not be started, the child timed out, or the child could not be started.
ExpectedFailure(r) ==
  \/ provision[r] \in {"failed", "spawn failed"}
  \/ result[r] = "Execution timed out"
  \/ result[r] = "Unknown error" /\ child[r] = "none"

\* C1: a request whose pipeline fails in an expected way (timeout, installer
\* failure, child spawn failure) is answered with HTTP 400 and a detail message,
\* never with HTTP 500.
C1_ExpectedFailureIs400 ==
  \A r \in Requests :
    (pc[r] = "done" /\ ExpectedFailure(r)) =>
      (response[r].status = 400 /\ response[r].detail # "none")

\* C2: after a wall-clock timeout the call has returned Failure{Timeout} and no
\* process started for the request, the child or a descendant of it, is running.
C2_TimeoutLeavesNoProcess ==
  \A r \in Requests :
    result[r] = "Execution timed out" => (child[r] # "running" /\ ~desc[r])

\* C3: when a call of sync_run has ended, on whatever exit path, its temporary
\* artifact no longer exists.
C3_NoArtifactAfterReturn ==
  \A r \in Requests : Returned(r) => r \notin tmpfiles

\* C4: in a child that runs user code the CPU ceiling is in force exactly when
\* cpuSeconds > 0 (on every platform), and the memory ceiling exactly when
\* memoryBytes > 0 on a platform with address-space ceilings (Linux).
C4_CeilingsInForce ==
  \A r \in Requests :
    child[r] # "none" =>
      /\ limits[r].cpu = (CPU_LIMIT > 0)
      /\ limits[r].mem = (MEMORY_LIMIT > 0 /\ platform = "Linux")

\* C5: when provisioning fails (pip exits non-zero, or pip cannot be started)
\* the request is over with an error response that carries the installer's
\* failure, and no child was started for it: no artifact, no child, no result.
C5_InstallFailureSpawnsNoChild ==
  \A r \in Requests :
    provision[r] \in {"failed", "spawn failed"} =>
      /\ pc[r] = "done"
      /\ child[r] = "none"
      /\ result[r] = "none"
      /\ r \notin tmpfiles
      /\ response[r].status >= 400
      /\ response[r].detail \in {"Failed to install modules",
                                 "No such file or directory: pip"}

\* Both kinds of provisioning failure have happened.
C5_Witness ==
  \E r, s \in Requests :
    /\ provision[r] = "failed"
    /\ provision[s] = "spawn failed"
    /\ Len(pipCalls[r]) = 1

\* C6: the argument literal of the footer evaluates, in the child, to a value
\* equal to the submitted args.
C6_LiteralEvaluatesToArgs ==
  wpc = "evaluated" => wvalue = PyList(wargs)

\* C7: when the child exits by itself, whatever its exit status, the result is
\* the Success shape and the response is HTTP 200; a Failure shape is produced
\* only when no exit status was collected.
C7_ExitedChildGivesSuccess ==
  \A r \in Requests :
    (pc[r] = "done" /\ child[r] = "exited") =>
      (result[r] = "success" /\ response[r].status = 200)

\* C8: ensure_modules_installed invokes the package manager zero times when
\* every module of the request resolves, and otherwise exactly once, with the
\* full set of the modules that do not resolve.
C8_OneInstallerCallForMissing ==
  \A r \in Requests :
    pc[r] # "new" =>
      pipCalls[r] = IF unresolved[r] = {} THEN <<>> ELSE <<unresolved[r]>>

\* A request in flight is at the await of run_in_executor.
Suspended(r) == pc[r] \in {"queued", "waiting", "completed"}

\* C9: a request that waits for its child does not hold the event loop, and
\* its wait is never what keeps a pending request from being admitted (only a
\* request that runs on the event loop itself can be); and a request in flight
\* that is not running on the event loop is at the one await, the wait for
\* sync_run.
C9_WaitDoesNotBlockLoop ==
  /\ \A r \in Requests : Suspended(r) => loop # r
  /\ \A r, s \in Requests :
       (pc[r] = "waiting" /\ pc[s] = "new" /\ loop \in {0, r}) => ENABLED Receive(s)
  /\ \A r \in Requests :
       (pc[r] \notin {"new", "done"} /\ loop # r) => Suspended(r)

\* Two requests wait for their running children at the same time.
C9_Witness ==
  \E r, s \in Requests :
    /\ r # s
    /\ pc[r] = "waiting" /\ child[r] = "running"
    /\ pc[s] = "waiting" /\ child[s] = "running"

\* C10 as claimed: installer invocations are not serialized, so while the
\* installer of one request is in progress another request can be admitted and
\* reach its own installer.
C10_InstallersRunConcurrently ==
  \A r, s \in Requests :
    (r # s /\ pc[r] = "installing" /\ pc[s] = "new") => ENABLED Receive(s)

\* C10 as amended: within one server process the installer runs on the
\* event-loop thread, which it holds until pip ends: at most one installer
\* invocation is in progress, and no other request is admitted or resumed
\* meanwhile.
C10_InstallersSerializedByLoop ==
  /\ Cardinality({r \in Requests : pc[r] = "installing"}) <= 1
  /\ \A r \in Requests :
       pc[r] = "installing" =>
         /\ loop = r
         /\ \A s \in Requests \ {r} : ~ENABLED Receive(s) /\ ~ENABLED Resume(s)

\* An installer is in progress while another request is pending, or while the
\* result of another request's child waits to be delivered.
C10_Witness ==
  \E r, s \in Requests :
    /\ r # s
    /\ pc[r] = "installing"
    /\ pc[s] \in {"new", "completed"}

====
